---- MODULE Spec2Model ----
(***************************************************************************)
(* The event loop of src/main.rs (run_app), its cursor arithmetic          *)
(* (move_cursor), and the coordinate mappers, as a state machine.          *)
(*                                                                         *)
(* The game engine (crate dungeon_raid_core) is an external collaborator:  *)
(* the model keeps of it the pending improvement choice set, which every   *)
(* engine command may replace by any choice set (or none), and the board's *)
(* successor directions, which Spec leaves without a chain and SpecRender  *)
(* draws from every board of at most MaxLinks links.                       *)
(* Terminal I/O errors (the `?` exits) are not modelled.                   *)
(***************************************************************************)
EXTENDS Integers, Sequences, FiniteSets, TLC

\* ------------------------------------------------------------------ bounds

\* Board size. The values come from dungeon_raid_core (imported at main.rs:9);
\* the model is parametric in them.
DEFAULT_BOARD_WIDTH == 3
DEFAULT_BOARD_HEIGHT == 2
\* Largest number of options of a choice set the engine presents in the model.
MaxChoices == 3
\* Largest number of tiles with a successor on a board drawn for the renderer.
MaxLinks == 3

\* --------------------------------------------------------------- constants

U16_MOD == 65536

PLAYING_CURSOR_MOVE == 2
PLAYING_CURSOR_MAX_UP == 0
PLAYING_CURSOR_MAX_LEFT == 0
PLAYING_CURSOR_MAX_RIGHT == PLAYING_CURSOR_MAX_LEFT + DEFAULT_BOARD_WIDTH * 2 - 1
PLAYING_CURSOR_MAX_DOWN == PLAYING_CURSOR_MAX_UP + DEFAULT_BOARD_HEIGHT * 2 - 1
CHOOSING_IMPROVEMENT_CURSOR_MOVE == 1
CHOOSING_IMPROVEMENT_CURSOR_MAX_UP == 1

\* u16 arithmetic (wrapping, as in a release build).
U16Add(a, b) == (a + b) % U16_MOD
U16Sub(a, b) == (a - b) % U16_MOD

\* Option<T>: None is the empty sequence, Some(v) the one-element sequence.
None == << >>
Some(v) == << v >>

\* ------------------------------------------------------------------- state

VARIABLES
    pc,                                     \* "loop": top of the loop; "read": blocked in event::read; "done": returned; "panic"
    game,                                   \* the engine: [improvement_choice_set: Option<[num_choices, num_to_choose]>]
    playing_cursor_position,                \* <<x, y>>
    choosing_improvement_cursor_position,   \* <<x, y>>
    improvement_choice_indeces,             \* Vec<usize>
    improvement_choice_selection_positions, \* Vec<(u16, u16)>
    game_state,                             \* <<"Playing">> or <<"ChoosingImprovement", num_choices>>
    terminal_cursor,                        \* what terminal.get_cursor() returns
    hover_tile,                             \* Option<TilePosition> queried by the last render
    engine_calls,                           \* engine commands issued while handling the last event
    last_event,                             \* what event::read returned last: "none", "key" or "other"
    last_key,                               \* the last key handled, with what its handler read
    key_before,                             \* the key handled before last_key, when it was a Confirm on a choice set
    next_selection,                         \* the engine's board: each tile's Wind8 towards its successor in the chain
    buf,                                    \* the glyphs of the board cells of the frame's Buffer
    render_log,                             \* the cell writes of the last render of the board, in the order made
    highlights                              \* the cells the last frame gave a white background

vars == << pc, game, playing_cursor_position, choosing_improvement_cursor_position,
           improvement_choice_indeces, improvement_choice_selection_positions,
           game_state, terminal_cursor, hover_tile, engine_calls, last_event, last_key, key_before,
           next_selection, buf, render_log, highlights >>

\* ----------------------------------------------------------- engine (opaque)

\* The choice sets the engine may present: n options, num_to_choose of them to pick.
ChoiceSets ==
    { s \in [num_choices : 1..MaxChoices, num_to_choose : 1..MaxChoices] :
        s.num_to_choose <= s.num_choices }

\* The engine after a command: any choice set, or none, may be pending.
EngineAfterCommand ==
    { [improvement_choice_set |-> None] }
        \cup { [improvement_choice_set |-> Some(s)] : s \in ChoiceSets }

\* Game::get_tile: Some exactly for positions on the board.
get_tile_is_some(tp) ==
    /\ tp.y \in 0..(DEFAULT_BOARD_HEIGHT - 1)
    /\ tp.x \in 0..(DEFAULT_BOARD_WIDTH - 1)

\* ------------------------------------------------------------ pure functions

\* move_cursor, Playing arm
PlayingMoveUp(cursor_pos) ==
    IF cursor_pos[2] >= PLAYING_CURSOR_MAX_UP + PLAYING_CURSOR_MOVE
    THEN << cursor_pos[1], U16Sub(cursor_pos[2], PLAYING_CURSOR_MOVE) >>
    ELSE cursor_pos

PlayingMoveRight_NoMargin(cursor_pos) ==
    IF cursor_pos[1] <= PLAYING_CURSOR_MAX_RIGHT
    THEN << U16Add(cursor_pos[1], PLAYING_CURSOR_MOVE), cursor_pos[2] >>
    ELSE cursor_pos

PlayingMoveRight(cursor_pos) ==
    IF cursor_pos[1] <= U16Sub(PLAYING_CURSOR_MAX_RIGHT, PLAYING_CURSOR_MOVE)
    THEN << U16Add(cursor_pos[1], PLAYING_CURSOR_MOVE), cursor_pos[2] >>
    ELSE cursor_pos

PlayingMoveDown_StepOne(cursor_pos) ==
    IF cursor_pos[2] <= U16Sub(PLAYING_CURSOR_MAX_DOWN, PLAYING_CURSOR_MOVE)
    THEN << cursor_pos[1], U16Add(cursor_pos[2], CHOOSING_IMPROVEMENT_CURSOR_MOVE) >>
    ELSE cursor_pos

PlayingMoveDown(cursor_pos) ==
    IF cursor_pos[2] <= U16Sub(PLAYING_CURSOR_MAX_DOWN, PLAYING_CURSOR_MOVE)
    THEN << cursor_pos[1], U16Add(cursor_pos[2], PLAYING_CURSOR_MOVE) >>
    ELSE cursor_pos

PlayingMoveLeft(cursor_pos) ==
    IF cursor_pos[1] >= PLAYING_CURSOR_MAX_LEFT + PLAYING_CURSOR_MOVE
    THEN << U16Sub(cursor_pos[1], PLAYING_CURSOR_MOVE), cursor_pos[2] >>
    ELSE cursor_pos

\* move_cursor, ChoosingImprovement arm
ChoosingMoveUp(cursor_pos) ==
    IF cursor_pos[2] >= CHOOSING_IMPROVEMENT_CURSOR_MAX_UP + CHOOSING_IMPROVEMENT_CURSOR_MOVE
    THEN << cursor_pos[1], U16Sub(cursor_pos[2], CHOOSING_IMPROVEMENT_CURSOR_MOVE) >>
    ELSE cursor_pos

ChoosingMoveDown_OffByOne(cursor_pos, num_choices) ==
    IF cursor_pos[2] <= U16Sub(U16Add(CHOOSING_IMPROVEMENT_CURSOR_MAX_UP, num_choices), 1)
    THEN << cursor_pos[1], U16Add(cursor_pos[2], CHOOSING_IMPROVEMENT_CURSOR_MOVE) >>
    ELSE cursor_pos

ChoosingMoveDown(cursor_pos, num_choices) ==
    IF cursor_pos[2] <= U16Sub(U16Sub(U16Add(CHOOSING_IMPROVEMENT_CURSOR_MAX_UP, num_choices), 1),
                               CHOOSING_IMPROVEMENT_CURSOR_MOVE)
    THEN << cursor_pos[1], U16Add(cursor_pos[2], CHOOSING_IMPROVEMENT_CURSOR_MOVE) >>
    ELSE cursor_pos

\* move_cursor(terminal, m, gs): the position read from the terminal, stepped.
\* Left and Right in ChoosingImprovement are unreachable!() in the source and
\* have no case here.
move_cursor(cursor_pos, m, gs) ==
    IF gs[1] = "Playing"
    THEN CASE m = "Up"    -> PlayingMoveUp(cursor_pos)
           [] m = "Right" -> PlayingMoveRight(cursor_pos)
           [] m = "Down"  -> PlayingMoveDown(cursor_pos)
           [] m = "Left"  -> PlayingMoveLeft(cursor_pos)
    ELSE CASE m = "Up"    -> ChoosingMoveUp(cursor_pos)
           [] m = "Down"  -> ChoosingMoveDown(cursor_pos, gs[2])

tile_position_from_cursor_position_NoHalving(cursor_position) ==
    [ y |-> U16Sub(cursor_position[2], PLAYING_CURSOR_MAX_UP),
      x |-> U16Sub(cursor_position[1], PLAYING_CURSOR_MAX_LEFT) ]

\* TilePosition::new(row, col) from a cursor <<x, y>>
tile_position_from_cursor_position(cursor_position) ==
    [ y |-> U16Sub(cursor_position[2], PLAYING_CURSOR_MAX_UP) \div 2,
      x |-> U16Sub(cursor_position[1], PLAYING_CURSOR_MAX_LEFT) \div 2 ]

improvement_choice_index_from_cursor_position_NoHeader(cursor_position) ==
    U16Sub(cursor_position[2], PLAYING_CURSOR_MAX_UP)

improvement_choice_index_from_cursor_position(cursor_position) ==
    U16Sub(U16Sub(cursor_position[2], PLAYING_CURSOR_MAX_UP), 1)

\* ------------------------------------------------- the selection accumulator

Range(s) == { s[i] : i \in 1..Len(s) }

\* Vec::remove(vec_idx), 1-based here
RemoveAt(s, i) == [ j \in 1..(Len(s) - 1) |-> IF j < i THEN s[j] ELSE s[j + 1] ]

\* the vec_idx at which the loop of lines 450-459 breaks
FirstIndexOf(s, v) == CHOOSE i \in 1..Len(s) : s[i] = v /\ \A j \in 1..(i - 1) : s[j] # v

ToggleIndeces_AlwaysAppends(indeces, index_pressed) == Append(indeces, index_pressed)

\* improvement_choice_indeces after lines 449-463
ToggleIndeces(indeces, index_pressed) ==
    IF index_pressed \in Range(indeces)
    THEN RemoveAt(indeces, FirstIndexOf(indeces, index_pressed))
    ELSE Append(indeces, index_pressed)

TogglePositions_KeepsCoordinate(indeces, positions, index_pressed, cursor_pos) ==
    IF index_pressed \in Range(indeces)
    THEN positions
    ELSE Append(positions, cursor_pos)

\* improvement_choice_selection_positions after lines 449-463
TogglePositions(indeces, positions, index_pressed, cursor_pos) ==
    IF index_pressed \in Range(indeces)
    THEN RemoveAt(positions, FirstIndexOf(indeces, index_pressed))
    ELSE Append(positions, cursor_pos)

SelectionComplete_WrongField(indeces, set) == Len(indeces) = set.num_choices

\* the test of line 464
SelectionComplete(indeces, set) == Len(indeces) = set.num_to_choose

ChoosingCursorAfterConfirm_NoReset(complete, cursor) == cursor

ChoosingCursorAfterConfirm_ResetsToOrigin(complete, cursor) ==
    IF complete THEN << 0, 0 >> ELSE cursor

\* choosing_improvement_cursor_position after lines 464-469
ChoosingCursorAfterConfirm(complete, cursor) == IF complete THEN << 0, 1 >> ELSE cursor

AccumulatorAfterConfirm_NoClear(complete, toggled) == toggled

\* either list of the accumulator after lines 464-469
AccumulatorAfterConfirm(complete, toggled) == IF complete THEN << >> ELSE toggled

\* -------------------------------------------------- the board renderer

\* TilePosition::new(y, x) of every board tile
Tiles ==
    { [ y |-> r, x |-> c ] : r \in 0..(DEFAULT_BOARD_HEIGHT - 1),
                             c \in 0..(DEFAULT_BOARD_WIDTH - 1) }

\* the board cells of the Buffer, <<x, y>>
Cells == (0..PLAYING_CURSOR_MAX_RIGHT) \X (0..PLAYING_CURSOR_MAX_DOWN)

\* Buffer cells hold " " when a frame begins
BlankBuffer == [ cell \in Cells |-> " " ]

Wind8 == { "U", "UR", "R", "DR", "D", "DL", "L", "UL", "None" }

\* TilePosition::try_from(Wind8): the unit offset (y down, x right)
TilePositionFromWind8(w) ==
    CASE w = "U"  -> [ y |-> -1, x |->  0 ]
      [] w = "UR" -> [ y |-> -1, x |->  1 ]
      [] w = "R"  -> [ y |->  0, x |->  1 ]
      [] w = "DR" -> [ y |->  1, x |->  1 ]
      [] w = "D"  -> [ y |->  1, x |->  0 ]
      [] w = "DL" -> [ y |->  1, x |-> -1 ]
      [] w = "L"  -> [ y |->  0, x |-> -1 ]
      [] w = "UL" -> [ y |-> -1, x |-> -1 ]

\* A tile's successor lies on the board.
SuccessorOnBoard(tile, w) ==
    LET tp == TilePositionFromWind8(w)
    IN  [ y |-> tile.y + tp.y, x |-> tile.x + tp.x ] \in Tiles

\* A board the engine may hold: the tiles of linked have a successor, which is
\* a board tile, and the others have none.
BoardOf(linked, dirs) == [ t \in Tiles |-> IF t \in linked THEN dirs[t] ELSE "None" ]

ScanOrder_RowMajor ==
    [ k \in 1..(DEFAULT_BOARD_WIDTH * DEFAULT_BOARD_HEIGHT) |->
        [ y |-> (k - 1) \div DEFAULT_BOARD_WIDTH, x |-> (k - 1) % DEFAULT_BOARD_WIDTH ] ]

\* the loops of lines 335 and 337: x outside, y inside
ScanOrder ==
    [ k \in 1..(DEFAULT_BOARD_WIDTH * DEFAULT_BOARD_HEIGHT) |->
        [ y |-> (k - 1) % DEFAULT_BOARD_HEIGHT, x |-> (k - 1) \div DEFAULT_BOARD_HEIGHT ] ]

ArrowBlot_SwapsDiagonals(tp) ==
    CASE tp.y = -1 -> (CASE tp.x = -1 -> "/"  [] tp.x = 0 -> "|" [] tp.x = 1 -> "\\")
      [] tp.y = 0  -> (CASE tp.x \in { -1, 1 } -> "-")
      [] tp.y = 1  -> (CASE tp.x = -1 -> "\\" [] tp.x = 0 -> "|" [] tp.x = 1 -> "/")

ArrowBlot_UpLeftVertical(tp) ==
    CASE tp.y = -1 -> (CASE tp.x = -1 -> "|"  [] tp.x = 0 -> "|" [] tp.x = 1 -> "/")
      [] tp.y = 0  -> (CASE tp.x \in { -1, 1 } -> "-")
      [] tp.y = 1  -> (CASE tp.x = -1 -> "/"  [] tp.x = 0 -> "|" [] tp.x = 1 -> "\\")

\* arrow_blot of lines 363-385; the other values of tp are unreachable!()
ArrowBlot(tp) ==
    CASE tp.y = -1 -> (CASE tp.x = -1 -> "\\" [] tp.x = 0 -> "|" [] tp.x = 1 -> "/")
      [] tp.y = 0  -> (CASE tp.x \in { -1, 1 } -> "-")
      [] tp.y = 1  -> (CASE tp.x = -1 -> "/"  [] tp.x = 0 -> "|" [] tp.x = 1 -> "\\")

ArrowCell_FullStep(blot_x, blot_y, tp) ==
    << CASE tp.x = -1 -> U16Sub(blot_x, 2) [] tp.x = 1 -> U16Add(blot_x, 2) [] OTHER -> blot_x,
       CASE tp.y = -1 -> U16Sub(blot_y, 2) [] tp.y = 1 -> U16Add(blot_y, 2) [] OTHER -> blot_y >>

\* <<arrow_blot_x, arrow_blot_y>> of lines 355-356, 365, 377 and 386-390
ArrowCell(blot_x, blot_y, tp) ==
    << CASE tp.x = -1 -> U16Sub(blot_x, 1) [] tp.x = 1 -> U16Add(blot_x, 1) [] OTHER -> blot_x,
       CASE tp.y = -1 -> U16Sub(blot_y, 1) [] tp.y = 1 -> U16Add(blot_y, 1) [] OTHER -> blot_y >>

CollisionGlyph_KeepsX(found, arrow_blot) ==
    IF found \in { "/", "\\", "X" } THEN "X" ELSE arrow_blot

\* lines 393-396
CollisionGlyph(found, arrow_blot) ==
    IF found \in { "/", "\\" } THEN "X" ELSE arrow_blot

\* One write to a cell, as logged: the tile being drawn, its direction, the cell,
\* the glyph found there, the glyph computed and the glyph written.
CellWrite(kind, tile, dir, cell, found, computed, written) ==
    [ kind |-> kind, tile |-> tile, dir |-> dir, cell |-> cell,
      found |-> found, computed |-> computed, written |-> written ]

\* The body of the loops, lines 338-397, for one tile. The tile's own glyph
\* (one of p s c S E B !, never a connector glyph) is written as "T".
RenderTile(board, st, tile) ==
    LET blot_x == tile.x * 2
        blot_y == tile.y * 2
        relative_next == board[tile]
        glyph_buf == [ st.buf EXCEPT ![<< blot_x, blot_y >>] = "T" ]
        glyph_log == Append(st.log, CellWrite("tile", tile, relative_next,
                                              << blot_x, blot_y >>,
                                              st.buf[<< blot_x, blot_y >>], "T", "T"))
    IN  IF relative_next = "None"
        THEN [ buf |-> glyph_buf, log |-> glyph_log ]
        ELSE LET tp == TilePositionFromWind8(relative_next)
                 cell == ArrowCell(blot_x, blot_y, tp)
                 arrow_blot == ArrowBlot(tp)
                 written == CollisionGlyph(glyph_buf[cell], arrow_blot)
             IN  [ buf |-> [ glyph_buf EXCEPT ![cell] = written ],
                   log |-> Append(glyph_log,
                                  CellWrite("connector", tile, relative_next, cell,
                                            glyph_buf[cell], arrow_blot, written)) ]

RECURSIVE RenderFrom(_, _, _)
\* the scan of lines 335-399 from its k-th tile on
RenderFrom(board, k, st) ==
    IF k > DEFAULT_BOARD_WIDTH * DEFAULT_BOARD_HEIGHT
    THEN st
    ELSE RenderFrom(board, k + 1, RenderTile(board, st, ScanOrder[k]))

\* GameWidget::render, the board: lines 335-399 on a fresh Buffer
RenderBoard(board) == RenderFrom(board, 1, [ buf |-> BlankBuffer, log |-> << >> ])

\* ------------------------------------------- the u16 subtractions made
\* Each operator lists, in the order computed, the << minuend, subtrahend >>
\* pairs of the u16 subtractions its function makes on the given arguments.

\* move_cursor, lines 95-139
move_cursor_subtractions(cursor_pos, m, gs) ==
    IF gs[1] = "Playing"
    THEN CASE m = "Up" ->
                IF cursor_pos[2] >= PLAYING_CURSOR_MAX_UP + PLAYING_CURSOR_MOVE
                THEN << << cursor_pos[2], PLAYING_CURSOR_MOVE >> >> ELSE << >>
           [] m = "Right" -> << << PLAYING_CURSOR_MAX_RIGHT, PLAYING_CURSOR_MOVE >> >>
           [] m = "Down" -> << << PLAYING_CURSOR_MAX_DOWN, PLAYING_CURSOR_MOVE >> >>
           [] m = "Left" ->
                IF cursor_pos[1] >= PLAYING_CURSOR_MAX_LEFT + PLAYING_CURSOR_MOVE
                THEN << << cursor_pos[1], PLAYING_CURSOR_MOVE >> >> ELSE << >>
    ELSE CASE m = "Up" ->
                IF cursor_pos[2] >= CHOOSING_IMPROVEMENT_CURSOR_MAX_UP
                                        + CHOOSING_IMPROVEMENT_CURSOR_MOVE
                THEN << << cursor_pos[2], CHOOSING_IMPROVEMENT_CURSOR_MOVE >> >> ELSE << >>
           [] m = "Down" ->
                LET sum == U16Add(CHOOSING_IMPROVEMENT_CURSOR_MAX_UP, gs[2])
                IN  << << sum, 1 >>,
                       << U16Sub(sum, 1), CHOOSING_IMPROVEMENT_CURSOR_MOVE >> >>

\* tile_position_from_cursor_position, lines 146-147
tile_position_subtractions(cursor_position) ==
    << << cursor_position[2], PLAYING_CURSOR_MAX_UP >>,
       << cursor_position[1], PLAYING_CURSOR_MAX_LEFT >> >>

\* improvement_choice_index_from_cursor_position, line 153
improvement_choice_index_subtractions(cursor_position) ==
    << << cursor_position[2], PLAYING_CURSOR_MAX_UP >>,
       << U16Sub(cursor_position[2], PLAYING_CURSOR_MAX_UP), 1 >> >>

\* the connector offsets, lines 365 and 387
ArrowCellSubtractions(blot_x, blot_y, tp) ==
    (IF tp.y = -1 THEN << << blot_y, 1 >> >> ELSE << >>)
    \o (IF tp.x = -1 THEN << << blot_x, 1 >> >> ELSE << >>)

\* the first pass of GameWidget::render, lines 188-190: the cells given a
\* white background
SelectionHighlights(positions) == { positions[i] : i \in 1..Len(positions) }

\* ----------------------------------------------------------- the event loop

\* lines 414-424
DeriveGameState(g) ==
    IF g.improvement_choice_set # None
    THEN << "ChoosingImprovement", g.improvement_choice_set[1].num_choices >>
    ELSE << "Playing" >>

CursorPositionFor_AlwaysPlaying(gs) == playing_cursor_position

\* lines 425-428
CursorPositionFor(gs) ==
    IF gs[1] = "Playing" THEN playing_cursor_position
    ELSE choosing_improvement_cursor_position

\* What is recorded of a handled key: its code, the choice set the handler found
\* pending (line 440), and for a Confirm on a choice set the cursor it read, the
\* accumulator it found and whether it committed.
NoKey == [ code |-> "none", set |-> None, committed |-> FALSE,
           cursor_pos |-> << 0, 0 >>, indeces |-> << >>, positions |-> << >> ]

Key(code) == [ NoKey EXCEPT !.code = code, !.set = game.improvement_choice_set ]

IsChoosingConfirm(k) == k.code = " " /\ k.set # None

KeyBefore == IF IsChoosingConfirm(last_key) THEN last_key ELSE NoKey

\* run_app, lines 406-412
Init ==
    /\ pc = "loop"
    /\ game = [ improvement_choice_set |-> None ]
    /\ playing_cursor_position = << 0, 0 >>
    /\ choosing_improvement_cursor_position = << 0, 1 >>
    /\ improvement_choice_indeces = << >>
    /\ improvement_choice_selection_positions = << >>
    /\ game_state = << "Unassigned" >>
    /\ terminal_cursor = << 0, 0 >>
    /\ hover_tile = None
    /\ engine_calls = << >>
    /\ last_event = "none"
    /\ last_key = NoKey
    /\ key_before = NoKey
    /\ next_selection = [ t \in Tiles |-> "None" ]
    /\ buf = BlankBuffer
    /\ render_log = << >>
    /\ highlights = { }

\* One frame, lines 414-437: derive the mode, pick its cursor, render
\* (GameWidget::render highlights the accumulated selection positions, queries
\* the hovered tile and draws the board when no choice set is pending, and
\* draws the choice panel otherwise), and place the terminal cursor (ui, line
\* 558).
Draw ==
    /\ pc = "loop"
    /\ game_state' = DeriveGameState(game)
    /\ highlights' = SelectionHighlights(improvement_choice_selection_positions)
    /\ LET cursor_position == CursorPositionFor(game_state')
           tp == tile_position_from_cursor_position(cursor_position)
           frame == RenderBoard(next_selection)
       IN  IF game.improvement_choice_set # None
           THEN /\ hover_tile' = None
                /\ buf' = BlankBuffer
                /\ render_log' = << >>
                /\ terminal_cursor' = cursor_position
                /\ pc' = "read"
           ELSE /\ hover_tile' = Some(tp)
                /\ IF get_tile_is_some(tp)
                   THEN /\ buf' = frame.buf
                        /\ render_log' = frame.log
                        /\ terminal_cursor' = cursor_position
                        /\ pc' = "read"
                   ELSE /\ buf' = BlankBuffer
                        /\ render_log' = << >>
                        /\ terminal_cursor' = terminal_cursor
                        /\ pc' = "panic"
    /\ UNCHANGED << game, playing_cursor_position, choosing_improvement_cursor_position,
                    improvement_choice_indeces, improvement_choice_selection_positions,
                    engine_calls, last_event, last_key, key_before, next_selection >>

\* line 439: an event that is not a key
NonKeyEvent ==
    /\ pc = "read"
    /\ pc' = "loop"
    /\ engine_calls' = << >>
    /\ last_event' = "other"
    /\ UNCHANGED << game, playing_cursor_position, choosing_improvement_cursor_position,
                    improvement_choice_indeces, improvement_choice_selection_positions,
                    game_state, terminal_cursor, hover_tile, last_key, key_before >>
    /\ UNCHANGED << next_selection, buf, render_log, highlights >>

Quit_KeepsLooping ==
    /\ pc = "read"
    /\ pc' = "loop"
    /\ engine_calls' = << >>
    /\ last_key' = Key("q")
    /\ last_event' = "key"
    /\ key_before' = KeyBefore
    /\ UNCHANGED << game, playing_cursor_position, choosing_improvement_cursor_position,
                    improvement_choice_indeces, improvement_choice_selection_positions,
                    game_state, terminal_cursor, hover_tile >>
    /\ UNCHANGED << next_selection, buf, render_log, highlights >>

\* lines 444 and 485
Quit ==
    /\ pc = "read"
    /\ last_event' = "key"
    /\ key_before' = KeyBefore
    /\ pc' = "done"
    /\ engine_calls' = << >>
    /\ last_key' = Key("q")
    /\ UNCHANGED << game, playing_cursor_position, choosing_improvement_cursor_position,
                    improvement_choice_indeces, improvement_choice_selection_positions,
                    game_state, terminal_cursor, hover_tile >>
    /\ UNCHANGED << next_selection, buf, render_log, highlights >>

\* lines 445-470
ChoosingConfirm ==
    /\ pc = "read"
    /\ game.improvement_choice_set # None
    /\ LET set == game.improvement_choice_set[1]
           cursor_pos == terminal_cursor
           index_pressed == improvement_choice_index_from_cursor_position(cursor_pos)
           indeces == ToggleIndeces(improvement_choice_indeces, index_pressed)
           positions == TogglePositions(improvement_choice_indeces,
                                        improvement_choice_selection_positions,
                                        index_pressed, cursor_pos)
           complete == SelectionComplete(indeces, set)
       IN  /\ IF complete
              THEN /\ game' \in EngineAfterCommand
                   /\ engine_calls' = << << "choose_improvements", indeces >> >>
              ELSE /\ game' = game
                   /\ engine_calls' = << >>
           /\ improvement_choice_indeces' = AccumulatorAfterConfirm(complete, indeces)
           /\ improvement_choice_selection_positions' = AccumulatorAfterConfirm(complete, positions)
           /\ choosing_improvement_cursor_position' =
                  ChoosingCursorAfterConfirm(complete, choosing_improvement_cursor_position)
           /\ last_key' = [ code |-> " ", set |-> game.improvement_choice_set,
                            committed |-> complete,
                            cursor_pos |-> cursor_pos,
                            indeces |-> improvement_choice_indeces,
                            positions |-> improvement_choice_selection_positions ]
    /\ last_event' = "key"
    /\ key_before' = KeyBefore
    /\ pc' = "loop"
    /\ UNCHANGED << playing_cursor_position, game_state, terminal_cursor, hover_tile >>
    /\ UNCHANGED << next_selection, buf, render_log, highlights >>

ChoosingMove_WritesPlayingCursor ==
    /\ pc = "read"
    /\ game.improvement_choice_set # None
    /\ \E m \in { "Down", "Up" } :
          /\ playing_cursor_position' = move_cursor(terminal_cursor, m, game_state)
          /\ last_key' = Key(IF m = "Down" THEN "j" ELSE "k")
    /\ last_event' = "key"
    /\ key_before' = KeyBefore
    /\ pc' = "loop"
    /\ engine_calls' = << >>
    /\ UNCHANGED << game, choosing_improvement_cursor_position, improvement_choice_indeces,
                    improvement_choice_selection_positions, game_state, terminal_cursor,
                    hover_tile >>
    /\ UNCHANGED << next_selection, buf, render_log, highlights >>

\* lines 471-478
ChoosingMove ==
    /\ pc = "read"
    /\ game.improvement_choice_set # None
    /\ \E m \in { "Down", "Up" } :
          /\ choosing_improvement_cursor_position' = move_cursor(terminal_cursor, m, game_state)
          /\ last_key' = Key(IF m = "Down" THEN "j" ELSE "k")
    /\ last_event' = "key"
    /\ key_before' = KeyBefore
    /\ pc' = "loop"
    /\ engine_calls' = << >>
    /\ UNCHANGED << game, playing_cursor_position, improvement_choice_indeces,
                    improvement_choice_selection_positions, game_state, terminal_cursor,
                    hover_tile >>
    /\ UNCHANGED << next_selection, buf, render_log, highlights >>

ChoosingOtherKey_CastsAbility ==
    /\ pc = "read"
    /\ game.improvement_choice_set # None
    /\ game' \in EngineAfterCommand
    /\ engine_calls' = << << "cast_ability", 0 >> >>
    /\ last_key' = Key("1")
    /\ last_event' = "key"
    /\ key_before' = KeyBefore
    /\ pc' = "loop"
    /\ UNCHANGED << playing_cursor_position, choosing_improvement_cursor_position,
                    improvement_choice_indeces, improvement_choice_selection_positions,
                    game_state, terminal_cursor, hover_tile >>
    /\ UNCHANGED << next_selection, buf, render_log, highlights >>

\* line 479
ChoosingOtherKey ==
    /\ pc = "read"
    /\ game.improvement_choice_set # None
    /\ last_key' = Key("other")
    /\ last_event' = "key"
    /\ key_before' = KeyBefore
    /\ pc' = "loop"
    /\ engine_calls' = << >>
    /\ UNCHANGED << game, playing_cursor_position, choosing_improvement_cursor_position,
                    improvement_choice_indeces, improvement_choice_selection_positions,
                    game_state, terminal_cursor, hover_tile >>
    /\ UNCHANGED << next_selection, buf, render_log, highlights >>

PlayingConfirm_GravityFirst ==
    /\ pc = "read"
    /\ game.improvement_choice_set = None
    /\ \E consumed \in BOOLEAN :
          /\ engine_calls' =
                IF consumed
                THEN << << "drop_selection", TRUE >>,
                        << "apply_gravity_and_randomize_new_tiles", 0 >>,
                        << "apply_incoming_damage", 0 >>,
                        << "run_end_of_turn_on_specials", 0 >> >>
                ELSE << << "drop_selection", FALSE >> >>
    /\ game' \in EngineAfterCommand
    /\ last_key' = Key(" ")
    /\ last_event' = "key"
    /\ key_before' = KeyBefore
    /\ pc' = "loop"
    /\ UNCHANGED << playing_cursor_position, choosing_improvement_cursor_position,
                    improvement_choice_indeces, improvement_choice_selection_positions,
                    game_state, terminal_cursor, hover_tile >>
    /\ UNCHANGED << next_selection, buf, render_log, highlights >>

\* lines 486-494
PlayingConfirm ==
    /\ pc = "read"
    /\ game.improvement_choice_set = None
    /\ \E consumed \in BOOLEAN :
          /\ engine_calls' =
                IF consumed
                THEN << << "drop_selection", TRUE >>,
                        << "apply_incoming_damage", 0 >>,
                        << "apply_gravity_and_randomize_new_tiles", 0 >>,
                        << "run_end_of_turn_on_specials", 0 >> >>
                ELSE << << "drop_selection", FALSE >> >>
    /\ game' \in EngineAfterCommand
    /\ last_key' = Key(" ")
    /\ last_event' = "key"
    /\ key_before' = KeyBefore
    /\ pc' = "loop"
    /\ UNCHANGED << playing_cursor_position, choosing_improvement_cursor_position,
                    improvement_choice_indeces, improvement_choice_selection_positions,
                    game_state, terminal_cursor, hover_tile >>
    /\ UNCHANGED << next_selection, buf, render_log, highlights >>

\* lines 495-499
PlayingMark ==
    /\ pc = "read"
    /\ game.improvement_choice_set = None
    /\ engine_calls' =
          << << "select_tile", tile_position_from_cursor_position(terminal_cursor) >> >>
    /\ game' \in EngineAfterCommand
    /\ last_key' = Key("x")
    /\ last_event' = "key"
    /\ key_before' = KeyBefore
    /\ pc' = "loop"
    /\ UNCHANGED << playing_cursor_position, choosing_improvement_cursor_position,
                    improvement_choice_indeces, improvement_choice_selection_positions,
                    game_state, terminal_cursor, hover_tile >>
    /\ UNCHANGED << next_selection, buf, render_log, highlights >>

KeyOfMove(m) ==
    CASE m = "Left" -> "h" [] m = "Down" -> "j" [] m = "Up" -> "k" [] m = "Right" -> "l"

\* lines 500-515
PlayingMove ==
    /\ pc = "read"
    /\ game.improvement_choice_set = None
    /\ \E m \in { "Left", "Down", "Up", "Right" } :
          /\ playing_cursor_position' = move_cursor(terminal_cursor, m, game_state)
          /\ last_key' = Key(KeyOfMove(m))
    /\ last_event' = "key"
    /\ key_before' = KeyBefore
    /\ pc' = "loop"
    /\ engine_calls' = << >>
    /\ UNCHANGED << game, choosing_improvement_cursor_position, improvement_choice_indeces,
                    improvement_choice_selection_positions, game_state, terminal_cursor,
                    hover_tile >>
    /\ UNCHANGED << next_selection, buf, render_log, highlights >>

\* lines 516-527
PlayingCastAbility ==
    /\ pc = "read"
    /\ game.improvement_choice_set = None
    /\ \E slot \in 0..3 :
          /\ engine_calls' = << << "cast_ability", slot >> >>
          /\ last_key' = Key(<< "1", "2", "3", "4" >>[slot + 1])
    /\ game' \in EngineAfterCommand
    /\ last_event' = "key"
    /\ key_before' = KeyBefore
    /\ pc' = "loop"
    /\ UNCHANGED << playing_cursor_position, choosing_improvement_cursor_position,
                    improvement_choice_indeces, improvement_choice_selection_positions,
                    game_state, terminal_cursor, hover_tile >>
    /\ UNCHANGED << next_selection, buf, render_log, highlights >>

\* line 528
PlayingOtherKey ==
    /\ pc = "read"
    /\ game.improvement_choice_set = None
    /\ last_key' = Key("other")
    /\ last_event' = "key"
    /\ key_before' = KeyBefore
    /\ pc' = "loop"
    /\ engine_calls' = << >>
    /\ UNCHANGED << game, playing_cursor_position, choosing_improvement_cursor_position,
                    improvement_choice_indeces, improvement_choice_selection_positions,
                    game_state, terminal_cursor, hover_tile >>
    /\ UNCHANGED << next_selection, buf, render_log, highlights >>

Next ==
    \/ Draw
    \/ NonKeyEvent
    \/ Quit
    \/ ChoosingConfirm
    \/ ChoosingMove
    \/ ChoosingOtherKey
    \/ PlayingConfirm
    \/ PlayingMark
    \/ PlayingMove
    \/ PlayingCastAbility
    \/ PlayingOtherKey

Spec == Init /\ [][Next]_vars

\* The renderer on every board: one frame of a fresh run_app whose engine
\* holds any board on which at most MaxLinks tiles have a successor.
InitRender ==
    /\ pc = "loop"
    /\ game = [ improvement_choice_set |-> None ]
    /\ playing_cursor_position = << 0, 0 >>
    /\ choosing_improvement_cursor_position = << 0, 1 >>
    /\ improvement_choice_indeces = << >>
    /\ improvement_choice_selection_positions = << >>
    /\ game_state = << "Unassigned" >>
    /\ terminal_cursor = << 0, 0 >>
    /\ hover_tile = None
    /\ engine_calls = << >>
    /\ last_event = "none"
    /\ last_key = NoKey
    /\ key_before = NoKey
    /\ \E linked \in SUBSET Tiles :
         /\ Cardinality(linked) <= MaxLinks
         /\ \E dirs \in [ linked -> Wind8 \ { "None" } ] :
              /\ \A t \in linked : SuccessorOnBoard(t, dirs[t])
              /\ next_selection = BoardOf(linked, dirs)
    /\ buf = BlankBuffer
    /\ render_log = << >>
    /\ highlights = { }

NextRender == Draw

SpecRender == InitRender /\ [][NextRender]_vars

\* The two together: the whole loop while no tile has a successor, and one
\* frame on every other board.
NoChain == \A t \in Tiles : next_selection[t] = "None"

NextAll ==
    \/ Draw
    \/ (NoChain /\ NonKeyEvent)
    \/ (NoChain /\ Quit)
    \/ (NoChain /\ ChoosingConfirm)
    \/ (NoChain /\ ChoosingMove)
    \/ (NoChain /\ ChoosingOtherKey)
    \/ (NoChain /\ PlayingConfirm)
    \/ (NoChain /\ PlayingMark)
    \/ (NoChain /\ PlayingMove)
    \/ (NoChain /\ PlayingCastAbility)
    \/ (NoChain /\ PlayingOtherKey)

SpecAll == InitRender /\ [][NextAll]_vars

\* ------------------------------------------------------------------ claims

Committed(calls) == \E i \in 1..Len(calls) : calls[i][1] = "choose_improvements"

ChoicePending == game.improvement_choice_set # None

\* C1: the Playing cursor never leaves [0, 2*BOARD_WIDTH-1] x [0, 2*BOARD_HEIGHT-1],
\* whatever moves and mode switches happened.
C1_PlayingCursorInBounds ==
    /\ playing_cursor_position[1] \in 0..(2 * DEFAULT_BOARD_WIDTH - 1)
    /\ playing_cursor_position[2] \in 0..(2 * DEFAULT_BOARD_HEIGHT - 1)

\* A Right move at the far corner of the board was refused.
C1_Witness ==
    /\ pc = "loop"
    /\ last_key.code = "l"
    /\ terminal_cursor = << 2 * DEFAULT_BOARD_WIDTH - 2, 2 * DEFAULT_BOARD_HEIGHT - 2 >>
    /\ playing_cursor_position = terminal_cursor

\* C2: the Playing cursor always rests on a tile glyph cell (2*col, 2*row) of a
\* board tile, never on a connector-only cell.
C2_PlayingCursorOnGlyphCell ==
    \E row \in 0..(DEFAULT_BOARD_HEIGHT - 1), col \in 0..(DEFAULT_BOARD_WIDTH - 1) :
        playing_cursor_position = << 2 * col, 2 * row >>

\* The cursor was walked off the origin in both axes, and a choice set is pending.
C2_Witness ==
    /\ ChoicePending
    /\ playing_cursor_position[1] >= 2
    /\ playing_cursor_position[2] >= 2
    /\ last_key.code = "j"
    /\ last_key.set # None

\* C3: every tile position the render's hover query and the Mark key compute lies
\* on the board, so get_tile(...).expect never fails.
C3_TilePositionOnBoard ==
    /\ pc # "panic"
    /\ hover_tile # None =>
          /\ 0 <= hover_tile[1].y /\ hover_tile[1].y < DEFAULT_BOARD_HEIGHT
          /\ 0 <= hover_tile[1].x /\ hover_tile[1].x < DEFAULT_BOARD_WIDTH
    /\ \A i \in 1..Len(engine_calls) :
          engine_calls[i][1] = "select_tile" =>
              /\ 0 <= engine_calls[i][2].y /\ engine_calls[i][2].y < DEFAULT_BOARD_HEIGHT
              /\ 0 <= engine_calls[i][2].x /\ engine_calls[i][2].x < DEFAULT_BOARD_WIDTH

\* The far corner tile was hovered by a render and then marked.
C3_Witness ==
    /\ hover_tile = Some([ y |-> DEFAULT_BOARD_HEIGHT - 1, x |-> DEFAULT_BOARD_WIDTH - 1 ])
    /\ engine_calls =
          << << "select_tile", [ y |-> DEFAULT_BOARD_HEIGHT - 1, x |-> DEFAULT_BOARD_WIDTH - 1 ] >> >>

\* C4: while a choice set with n options is pending, the choosing cursor has
\* x = 0 and 1 <= y <= n.
C4_ChoosingCursorInBounds ==
    ChoicePending =>
        /\ choosing_improvement_cursor_position[1] = 0
        /\ 1 <= choosing_improvement_cursor_position[2]
        /\ choosing_improvement_cursor_position[2] <= game.improvement_choice_set[1].num_choices

\* A Down move on the last of at least two options was refused.
C4_Witness ==
    /\ pc = "loop"
    /\ ChoicePending
    /\ last_key.code = "j"
    /\ game.improvement_choice_set[1].num_choices >= 2
    /\ terminal_cursor = << 0, game.improvement_choice_set[1].num_choices >>
    /\ choosing_improvement_cursor_position = terminal_cursor

\* C5: a frame that begins a new choice set (the mode was not ChoosingImprovement
\* in the frame before, or the event in between committed the previous set) shows
\* the choosing cursor at (0,1), menu index 0.
C5_NewSetStartsAtFirstOption ==
    [][ ( /\ pc = "loop" /\ pc' = "read"
          /\ game_state'[1] = "ChoosingImprovement"
          /\ (game_state[1] # "ChoosingImprovement" \/ Committed(engine_calls)) )
        => /\ choosing_improvement_cursor_position' = << 0, 1 >>
           /\ terminal_cursor' = << 0, 1 >>
           /\ terminal_cursor'[2] - 1 = 0 ]_vars

\* A set committed from a row below the first is followed by another set.
C5_Witness ==
    /\ pc = "read"
    /\ game_state[1] = "ChoosingImprovement"
    /\ Committed(engine_calls)
    /\ last_key.committed
    /\ last_key.cursor_pos[2] > 1
    /\ terminal_cursor = << 0, 1 >>

\* C6: a key handled on a choice set leaves the Playing cursor alone, a key
\* handled on the board leaves the choosing cursor alone, and a frame in Playing
\* mode shows the Playing cursor as stored.
C6_CursorsIndependent ==
    [][ /\ (pc = "read" /\ ChoicePending)
            => playing_cursor_position' = playing_cursor_position
        /\ (pc = "read" /\ ~ChoicePending)
            => choosing_improvement_cursor_position' = choosing_improvement_cursor_position
        /\ (pc = "loop" /\ pc' = "read" /\ game_state'[1] = "Playing")
            => /\ terminal_cursor' = playing_cursor_position
               /\ playing_cursor_position' = playing_cursor_position ]_vars

\* Back on the board after a set committed from a lower row, the cursor shown is
\* the Playing cursor, away from the origin.
C6_Witness ==
    /\ pc = "read"
    /\ game_state = << "Playing" >>
    /\ IsChoosingConfirm(last_key)
    /\ last_key.committed
    /\ last_key.cursor_pos[2] > 1
    /\ terminal_cursor = playing_cursor_position
    /\ playing_cursor_position[1] >= 2
    /\ playing_cursor_position[2] >= 2

\* C7: the accumulator never holds more indices than the pending set's
\* num_to_choose.
C7_AccumulatorWithinPicks ==
    ChoicePending =>
        Len(improvement_choice_indeces) <= game.improvement_choice_set[1].num_to_choose

\* A Confirm left the accumulator one short of a set's two or more picks.
C7_Witness ==
    /\ ChoicePending
    /\ game.improvement_choice_set[1].num_to_choose >= 2
    /\ Len(improvement_choice_indeces) = game.improvement_choice_set[1].num_to_choose - 1
    /\ IsChoosingConfirm(last_key)

\* The last two keys were both Confirm on a choice set with the same row hovered.
TwoConfirmsOnSameIndex ==
    /\ IsChoosingConfirm(last_key)
    /\ IsChoosingConfirm(key_before)
    /\ last_key.cursor_pos[2] = key_before.cursor_pos[2]

Pairs(indeces, positions) ==
    { << indeces[i], positions[i] >> : i \in 1..Len(indeces) }

\* C8 (as claimed): Confirm twice in a row on the same menu index returns both
\* lists of the accumulator to their prior contents.
C8_ToggleTwiceRestores ==
    TwoConfirmsOnSameIndex =>
        /\ improvement_choice_indeces = key_before.indeces
        /\ improvement_choice_selection_positions = key_before.positions

\* C8 (amended): when the first of the two Confirms did not commit, the
\* accumulator is back to its prior size and the same index-coordinate pairs;
\* the lists are the prior lists when the index was not chosen before, and
\* otherwise the index and its coordinate have moved to the end.
C8_ToggleTwiceRestoresPairs ==
    (TwoConfirmsOnSameIndex /\ ~key_before.committed) =>
        LET idx == last_key.cursor_pos[2] - 1
            indeces0 == key_before.indeces
            positions0 == key_before.positions
        IN  /\ Len(improvement_choice_indeces) = Len(indeces0)
            /\ Len(improvement_choice_selection_positions) = Len(positions0)
            /\ Pairs(improvement_choice_indeces, improvement_choice_selection_positions)
                  = Pairs(indeces0, positions0)
            /\ (\A i \in 1..Len(indeces0) : indeces0[i] # idx)
                  => /\ improvement_choice_indeces = indeces0
                     /\ improvement_choice_selection_positions = positions0
            /\ (\E i \in 1..Len(indeces0) : indeces0[i] = idx)
                  => /\ improvement_choice_indeces
                          = SelectSeq(indeces0, LAMBDA v : v # idx) \o << idx >>
                     /\ improvement_choice_selection_positions
                          = SelectSeq(positions0, LAMBDA q : q # last_key.cursor_pos)
                              \o << last_key.cursor_pos >>

\* An index chosen first of two was confirmed twice and now stands last.
C8_Witness ==
    /\ TwoConfirmsOnSameIndex
    /\ ~key_before.committed
    /\ Len(key_before.indeces) = 2
    /\ key_before.indeces[1] = last_key.cursor_pos[2] - 1
    /\ improvement_choice_indeces[2] = key_before.indeces[1]

\* C9: a Confirm on a choice set toggles the hovered index; choose_improvements
\* is called exactly when the toggled list has num_to_choose entries, by no other
\* key, and right after the call both lists are empty and the choosing cursor is
\* at (0,1).
C9_CommitExactlyOnReachingCount ==
    [][ pc = "read" =>
          LET idx == terminal_cursor[2] - 1
              was == \E i \in 1..Len(improvement_choice_indeces) :
                         improvement_choice_indeces[i] = idx
              toggled_len == IF was THEN Len(improvement_choice_indeces) - 1
                             ELSE Len(improvement_choice_indeces) + 1
              confirm == ChoicePending /\ last_event' = "key" /\ last_key'.code = " "
          IN  /\ Committed(engine_calls') => confirm
              /\ confirm =>
                    /\ Committed(engine_calls')
                          <=> toggled_len = game.improvement_choice_set[1].num_to_choose
                    /\ Committed(engine_calls') =>
                          /\ Len(engine_calls') = 1
                          /\ improvement_choice_indeces' = << >>
                          /\ improvement_choice_selection_positions' = << >>
                          /\ choosing_improvement_cursor_position' = << 0, 1 >>
                    /\ ~Committed(engine_calls') =>
                          /\ Len(improvement_choice_indeces') = toggled_len
                          /\ was <=> (\A i \in 1..Len(improvement_choice_indeces') :
                                          improvement_choice_indeces'[i] # idx) ]_vars

\* A set of two picks was committed from a row below the first.
C9_Witness ==
    /\ pc = "loop"
    /\ IsChoosingConfirm(last_key)
    /\ Committed(engine_calls)
    /\ Len(last_key.indeces) >= 1
    /\ last_key.cursor_pos[2] > 1
    /\ improvement_choice_indeces = << >>
    /\ improvement_choice_selection_positions = << >>
    /\ choosing_improvement_cursor_position = << 0, 1 >>

\* What each frame derives: ChoosingImprovement(n) exactly when the engine
\* reports a pending set of n options, Playing exactly when it reports none.
ModeFollowsEngine ==
    /\ game_state'[1] \in { "Playing", "ChoosingImprovement" }
    /\ game_state'[1] = "ChoosingImprovement" <=> ChoicePending
    /\ ChoicePending =>
          /\ Len(game_state') = 2
          /\ game_state'[2] = game.improvement_choice_set[1].num_choices

\* C10 (as claimed): the mode follows the engine's report, and two consecutive
\* frames that are both in ChoosingImprovement have the same option count.
C10_OptionCountFixedWhileChoosing ==
    [][ (pc = "loop" /\ pc' = "read") =>
          /\ ModeFollowsEngine
          /\ (game_state[1] = "ChoosingImprovement" /\ game_state'[1] = "ChoosingImprovement")
                => game_state'[2] = game_state[2] ]_vars

\* C10 (amended): the mode follows the engine's report, and between two
\* consecutive frames in ChoosingImprovement the option count changes only when
\* the event handled in between called choose_improvements.
C10_OptionCountChangesOnlyOnCommit ==
    [][ (pc = "loop" /\ pc' = "read") =>
          /\ ModeFollowsEngine
          /\ ( /\ game_state[1] = "ChoosingImprovement"
               /\ game_state'[1] = "ChoosingImprovement"
               /\ game_state'[2] # game_state[2] )
                => Committed(engine_calls) ]_vars

\* A commit was followed at once by a set with another number of options.
C10_Witness ==
    /\ pc = "read"
    /\ game_state[1] = "ChoosingImprovement"
    /\ IsChoosingConfirm(last_key)
    /\ last_key.committed
    /\ Committed(engine_calls)
    /\ game_state[2] # last_key.set[1].num_choices

CallNames(calls) == [ i \in 1..Len(calls) |-> calls[i][1] ]

\* C13: a Confirm on the board issues drop_selection first; when it reports
\* tiles consumed, then apply_incoming_damage, apply_gravity_and_randomize_new_tiles
\* and run_end_of_turn_on_specials in that order and nothing else; when it
\* reports none consumed, none of the three; and no other event issues them.
C13_ConfirmCommandOrder ==
    [][ pc = "read" =>
          LET confirm == ~ChoicePending /\ last_event' = "key" /\ last_key'.code = " "
              turn == { "drop_selection", "apply_incoming_damage",
                        "apply_gravity_and_randomize_new_tiles",
                        "run_end_of_turn_on_specials" }
          IN  /\ (\E i \in 1..Len(engine_calls') : engine_calls'[i][1] \in turn) => confirm
              /\ confirm =>
                    /\ Len(engine_calls') >= 1
                    /\ engine_calls'[1][1] = "drop_selection"
                    /\ engine_calls'[1][2] \in BOOLEAN
                    /\ engine_calls'[1][2] =>
                          CallNames(engine_calls') =
                              << "drop_selection", "apply_incoming_damage",
                                 "apply_gravity_and_randomize_new_tiles",
                                 "run_end_of_turn_on_specials" >>
                    /\ ~engine_calls'[1][2] => Len(engine_calls') = 1 ]_vars

\* A Confirm on the board whose drop_selection consumed tiles has been handled.
C13_Witness ==
    /\ pc = "loop"
    /\ last_key.code = " "
    /\ last_key.set = None
    /\ Len(engine_calls) = 4
    /\ engine_calls[1] = << "drop_selection", TRUE >>

\* C14: the two lists of the accumulator always have the same length, and the
\* coordinate stored at position i is the cursor row of the index stored at i:
\* positions[i].y = indeces[i] + 1.
C14_AccumulatorPaired ==
    /\ Len(improvement_choice_indeces) = Len(improvement_choice_selection_positions)
    /\ \A i \in 1..Len(improvement_choice_indeces) :
          /\ i <= Len(improvement_choice_selection_positions)
          /\ improvement_choice_selection_positions[i][2] = improvement_choice_indeces[i] + 1

\* Two options are held, picked from the lower row first, after one was removed.
C14_Witness ==
    /\ Len(improvement_choice_indeces) = 2
    /\ improvement_choice_indeces[1] > improvement_choice_indeces[2]
    /\ IsChoosingConfirm(key_before)
    /\ Len(key_before.indeces) > Len(last_key.indeces)

\* C15: the key 'q' ends the loop in either mode: its handler issues no engine
\* command and changes no UI state, and once the loop has returned no further
\* step (frame, event, command) is taken.
C15_QuitTerminates ==
    [][ /\ pc # "done"
        /\ (pc = "read" /\ last_event' = "key" /\ last_key'.code = "q")
              => /\ pc' = "done"
                 /\ engine_calls' = << >>
                 /\ UNCHANGED << game, playing_cursor_position,
                                 choosing_improvement_cursor_position,
                                 improvement_choice_indeces,
                                 improvement_choice_selection_positions,
                                 game_state, terminal_cursor, hover_tile >> ]_vars

\* The loop has returned on a 'q' read on a choice set, with an accumulation in
\* progress and the Playing cursor away from the origin.
C15_Witness ==
    /\ pc = "done"
    /\ last_key.code = "q"
    /\ last_key.set # None
    /\ Len(improvement_choice_indeces) >= 1
    /\ playing_cursor_position # << 0, 0 >>

\* C20: every call of choose_improvements passes exactly num_to_choose pairwise
\* distinct menu indices, each in [0, n-1], of the set pending at the call.
C20_CommittedIndecesValid ==
    \A c \in 1..Len(engine_calls) :
        engine_calls[c][1] = "choose_improvements" =>
            /\ IsChoosingConfirm(last_key)
            /\ LET chosen == engine_calls[c][2]
                   set == last_key.set[1]
               IN  /\ Len(chosen) = set.num_to_choose
                   /\ \A i, j \in 1..Len(chosen) : i # j => chosen[i] # chosen[j]
                   /\ \A i \in 1..Len(chosen) : 0 <= chosen[i] /\ chosen[i] <= set.num_choices - 1

\* A set of three picks was committed with the last option picked first.
C20_Witness ==
    /\ Len(engine_calls) = 1
    /\ engine_calls[1][1] = "choose_improvements"
    /\ Len(engine_calls[1][2]) >= 2
    /\ engine_calls[1][2][1] > engine_calls[1][2][2]
    /\ engine_calls[1][2][1] = last_key.set[1].num_choices - 1


\* ------------------------------------------------ claims on the renderer

\* the board has been rendered in the current frame
Rendered == render_log # << >>

\* the positions of the connector writes in the log
ConnectorWrites == { i \in DOMAIN render_log : render_log[i].kind = "connector" }

\* C12: for each of the 8 directions (dy,dx) the glyph computed for the
\* connector is '|' when dx = 0, '-' when dy = 0, '\' when (dy,dx) is (-1,-1)
\* or (1,1) and '/' when it is (-1,1) or (1,-1); a connector written to a cell
\* not already holding '/' or '\' shows exactly that glyph.
C12_GlyphSelection ==
    \A i \in ConnectorWrites :
        LET w == render_log[i]
            d == TilePositionFromWind8(w.dir)
        IN  /\ d.x = 0 => w.computed = "|"
            /\ d.y = 0 => w.computed = "-"
            /\ (d.x # 0 /\ d.y # 0 /\ d.x = d.y) => w.computed = "\\"
            /\ (d.x # 0 /\ d.y # 0 /\ d.x # d.y) => w.computed = "/"
            /\ w.found \notin { "/", "\\" } => w.written = w.computed

C12_Witness ==
    /\ \E i \in ConnectorWrites :
         render_log[i].dir = "UR" /\ render_log[i].written = "/"
    /\ \E i \in ConnectorWrites :
         render_log[i].dir = "UL" /\ render_log[i].written = "\\"
    /\ \E i \in ConnectorWrites :
         render_log[i].dir = "D" /\ render_log[i].written = "|"

\* C19: for a tile at (row r, col c) with a direction (dy,dx) the connector is
\* written once, at cell (x,y) = (2c+dx, 2r+dy), halfway between the tile's
\* glyph cell (2c,2r) and its successor's glyph cell (2(c+dx),2(r+dy)); a tile
\* without a direction produces no connector write.
C19_ConnectorHalfway ==
    Rendered =>
        \A t \in Tiles :
            LET writes == { i \in ConnectorWrites : render_log[i].tile = t }
            IN  IF next_selection[t] = "None"
                THEN writes = { }
                ELSE LET d == TilePositionFromWind8(next_selection[t])
                     IN  /\ Cardinality(writes) = 1
                         /\ \A i \in writes :
                              /\ render_log[i].cell = << 2 * t.x + d.x, 2 * t.y + d.y >>
                              /\ 2 * render_log[i].cell[1] = 2 * t.x + 2 * (t.x + d.x)
                              /\ 2 * render_log[i].cell[2] = 2 * t.y + 2 * (t.y + d.y)

C19_Witness ==
    /\ Rendered
    /\ \E t \in Tiles : next_selection[t] = "None"
    /\ \E i \in ConnectorWrites :
         /\ render_log[i].tile = [ y |-> 1, x |-> 1 ]
         /\ render_log[i].dir = "UL"
         /\ render_log[i].cell = << 1, 1 >>

\* the cell between the tile's glyph cell and its successor's, for direction w
TargetCell(t, w) ==
    LET d == TilePositionFromWind8(w)
    IN  << 2 * t.x + d.x, 2 * t.y + d.y >>

Diagonal(w) == w \in { "UR", "DR", "DL", "UL" }

\* the linked tiles of the board whose connectors target the cell
TilesTargeting(cell) ==
    { t \in Tiles : next_selection[t] # "None" /\ TargetCell(t, next_selection[t]) = cell }

\* C11: after a full board render, if two distinct tiles' connectors target the
\* same cell and at least one of them is diagonal, the final glyph at that cell
\* is 'X', for every assignment of successor directions.
C11_CollisionShowsX ==
    Rendered =>
        \A cell \in Cells :
            (\E t1, t2 \in TilesTargeting(cell) :
                /\ t1 # t2
                /\ Diagonal(next_selection[t1]) \/ Diagonal(next_selection[t2]))
            => buf[cell] = "X"

\* C16, as claimed: the tiles are visited in row-major order, all tiles of row r
\* (glyph write, then connector write) before any tile of row r+1.
C16_RowMajorScan ==
    \A i, j \in DOMAIN render_log :
        /\ render_log[i].tile.y < render_log[j].tile.y => i < j
        /\ (render_log[i].tile = render_log[j].tile
            /\ render_log[i].kind = "tile" /\ render_log[j].kind = "connector") => i < j

\* C16, amended: the tiles are visited in column-major order, all tiles of
\* column c (glyph write, then connector write) before any tile of column c+1,
\* and the tiles of a column from row 0 downwards.
C16_ColumnMajorScan ==
    \A i, j \in DOMAIN render_log :
        /\ render_log[i].tile.x < render_log[j].tile.x => i < j
        /\ (render_log[i].tile.x = render_log[j].tile.x
            /\ render_log[i].tile.y < render_log[j].tile.y) => i < j
        /\ (render_log[i].tile = render_log[j].tile
            /\ render_log[i].kind = "tile" /\ render_log[j].kind = "connector") => i < j

C16_Witness ==
    \E i, j \in ConnectorWrites :
        /\ i < j
        /\ render_log[i].tile.x < render_log[j].tile.x
        /\ render_log[i].tile.y > render_log[j].tile.y

\* the glyph a write leaves in its cell stays until the next write to the cell
LastWriteShows(i) ==
    (\A j \in DOMAIN render_log : j > i => render_log[j].cell # render_log[i].cell)
    => buf[render_log[i].cell] = render_log[i].written

\* C17: a connector write inspects its cell only for '/' or '\': it writes 'X'
\* exactly when it finds one of them, and a connector that finds 'X' writes its
\* own computed glyph, which replaces the 'X'.
C17_XIsNotRechecked ==
    \A i \in ConnectorWrites :
        LET w == render_log[i]
        IN  /\ w.written = "X" <=> w.found \in { "/", "\\" }
            /\ w.found = "X" => (w.written = w.computed /\ w.written # "X")
            /\ LastWriteShows(i)

C17_Witness ==
    \E i \in ConnectorWrites :
        /\ render_log[i].found = "X"
        /\ render_log[i].written = "\\"
        /\ buf[render_log[i].cell] = "\\"

\* the tiles whose glyph cell touches the cell
Around(cell) ==
    { t \in Tiles : /\ 2 * t.x - cell[1] \in { -1, 0, 1 }
                    /\ 2 * t.y - cell[2] \in { -1, 0, 1 } }

\* C18, as claimed: there is a board with three or more connectors around one
\* cell whose render writes a non-diagonal glyph ('|' or '-') to a cell that
\* holds 'X'.
C18_NonDiagonalOverwritesX ==
    \E cell \in DOMAIN buf :
        \E linked \in SUBSET Around(cell) :
            /\ Cardinality(linked) >= 3
            /\ \E dirs \in [ linked -> Wind8 \ { "None" } ] :
                 /\ \A t \in linked : SuccessorOnBoard(t, dirs[t])
                 /\ LET log == RenderBoard(BoardOf(linked, dirs)).log
                    IN  \E i \in DOMAIN log :
                            log[i].found = "X" /\ log[i].written \in { "|", "-" }

\* C18, amended: a write that finds 'X' in its cell is the write of a diagonal
\* connector and leaves '/' or '\' there; no '|', '-' or tile glyph is ever
\* written to a cell holding 'X'.
C18_OnlyDiagonalOverwritesX ==
    \A i \in DOMAIN render_log :
        render_log[i].found = "X" =>
            /\ render_log[i].kind = "connector"
            /\ Diagonal(render_log[i].dir)
            /\ render_log[i].written \in { "/", "\\" }

C18_Witness ==
    \E cell \in Cells :
        /\ Cardinality(TilesTargeting(cell)) >= 3
        /\ \E i \in ConnectorWrites :
             /\ render_log[i].cell = cell
             /\ render_log[i].found = "X"
             /\ render_log[i].written = "/"

\* ------------------------------------- claims on the loop, continued

\* C21: whenever the engine exposes no pending choice set, both accumulator
\* lists are empty, so a frame that shows the board highlights no cell; and
\* after every handler that issued an engine command (the only steps that can
\* end a choice set or bring a new one) both lists are empty, so no accumulation
\* in progress is carried into Playing or into a later choice set.
C21_AccumulatorEmptyInPlaying ==
    /\ ~ChoicePending =>
          /\ improvement_choice_indeces = << >>
          /\ improvement_choice_selection_positions = << >>
    /\ engine_calls # << >> =>
          /\ improvement_choice_indeces = << >>
          /\ improvement_choice_selection_positions = << >>
    /\ Rendered => highlights = { }

\* the board is shown right after a commit that ended an accumulation of two picks
C21_Witness ==
    /\ pc = "read"
    /\ game_state = << "Playing" >>
    /\ Rendered
    /\ highlights = { }
    /\ last_key.code = " "
    /\ last_key.committed
    /\ Len(last_key.indeces) >= 1
    /\ improvement_choice_indeces = << >>

\* the stored cursor of the mode the engine is in
StoredCursor ==
    IF ChoicePending THEN choosing_improvement_cursor_position ELSE playing_cursor_position

\* the move a key asks for
MoveOfKey(code) ==
    CASE code = "h" -> "Left" [] code = "j" -> "Down" [] code = "k" -> "Up" [] code = "l" -> "Right"

\* C22: whenever a key is handled, the position the handler reads back from the
\* terminal is the stored cursor of the current mode, as the preceding draw
\* placed it, and the mode re-derived in the handler is the GameState derived at
\* the top of the iteration: move_cursor moves the stored cursor, the Mark key
\* selects the tile under the stored playing cursor, and the ChoosingImprovement
\* Confirm reads the stored choosing cursor.
C22_HandlerReadsStoredCursor ==
    [][ (pc = "read" /\ last_event' = "key") =>
          /\ terminal_cursor = StoredCursor
          /\ game_state = (IF ChoicePending
                           THEN << "ChoosingImprovement",
                                   game.improvement_choice_set[1].num_choices >>
                           ELSE << "Playing" >>)
          /\ (ChoicePending /\ last_key'.code = " ") =>
                last_key'.cursor_pos = choosing_improvement_cursor_position
          /\ (ChoicePending /\ last_key'.code \in { "j", "k" }) =>
                choosing_improvement_cursor_position' =
                    move_cursor(choosing_improvement_cursor_position,
                                MoveOfKey(last_key'.code), game_state)
          /\ (~ChoicePending /\ last_key'.code \in { "h", "j", "k", "l" }) =>
                playing_cursor_position' =
                    move_cursor(playing_cursor_position, MoveOfKey(last_key'.code),
                                << "Playing" >>)
          /\ (~ChoicePending /\ last_key'.code = "x") =>
                engine_calls' =
                    << << "select_tile",
                          tile_position_from_cursor_position(playing_cursor_position) >> >>
    ]_vars

\* a Confirm on a choice set read the choosing cursor, two rows below the
\* header, while the playing cursor rests elsewhere
C22_Witness ==
    /\ pc = "loop"
    /\ last_event = "key"
    /\ IsChoosingConfirm(last_key)
    /\ last_key.cursor_pos = << 0, 2 >>
    /\ playing_cursor_position = << 2, 2 >>

\* no subtraction of the list wraps below zero
NoUnderflow(subtractions) ==
    \A i \in DOMAIN subtractions : subtractions[i][1] >= subtractions[i][2]

\* C23: no u16 subtraction underflows in any reachable state: not in move_cursor
\* for any move key of the mode (the Down bound 1 + n - 1 - 1 included), not in
\* the index computation y - 0 - 1 of a Confirm on a choice set, not in the tile
\* position of the hovered or marked tile, and not in the connector offsets
\* blot_x - 1 and blot_y - 1 of any connector the renderer wrote.
C23_NoU16Underflow ==
    /\ (pc = "read" /\ ChoicePending) =>
          /\ \A m \in { "Up", "Down" } :
                NoUnderflow(move_cursor_subtractions(terminal_cursor, m, game_state))
          /\ NoUnderflow(improvement_choice_index_subtractions(terminal_cursor))
    /\ (pc = "read" /\ ~ChoicePending) =>
          /\ \A m \in { "Up", "Right", "Down", "Left" } :
                NoUnderflow(move_cursor_subtractions(terminal_cursor, m, game_state))
          /\ NoUnderflow(tile_position_subtractions(terminal_cursor))
    /\ (pc = "loop" /\ ~ChoicePending) =>
          NoUnderflow(tile_position_subtractions(playing_cursor_position))
    /\ \A i \in ConnectorWrites :
          NoUnderflow(ArrowCellSubtractions(2 * render_log[i].tile.x,
                                            2 * render_log[i].tile.y,
                                            TilePositionFromWind8(render_log[i].dir)))

\* a key is awaited on a choice set of a single option, the cursor on its row
\* after an earlier commit: the Down bound 1 + 1 - 1 - 1 and the index 1 - 0 - 1
\* are both zero
C23_Witness ==
    /\ pc = "read"
    /\ ChoicePending
    /\ game.improvement_choice_set[1].num_choices = 1
    /\ terminal_cursor = << 0, 1 >>
    /\ IsChoosingConfirm(last_key)
    /\ last_key.committed

====
